---- MODULE Spec2Model ----
(***************************************************************************)
(* Pointer-type bridge of the Winote Windows runner                        *)
(* (windows/runner/flutter_window.cpp, flutter_window.h).                  *)
(*                                                                         *)
(* One FlutterWindow object exists at a time (the runner constructs one);  *)
(* it may be destructed and a new one constructed.  The operating system   *)
(* is the environment: it delivers messages to the top-level window        *)
(* (MessageHandler) and to the subclassed Flutter view                     *)
(* (FlutterViewSubclassProc), and answers GetPointerType /                 *)
(* GetPointerPenInfo / GetProcAddress / SetWindowLongPtr with outcomes     *)
(* chosen nondeterministically.                                            *)
(***************************************************************************)
EXTENDS Integers, Sequences, FiniteSets, TLC

(* ---- window messages, flutter_window.cpp:49-64 and MessageHandler:288 -- *)
WM_POINTERUPDATE == 581
WM_POINTERDOWN == 582
WM_POINTERUP == 583
WM_POINTERENTER == 585
WM_POINTERLEAVE == 586
WM_FONTCHANGE == 29
WM_PAINT == 15

(* ---- pointer type constants, flutter_window.cpp:67-73 ------------------ *)
PT_POINTER == 1
PT_TOUCH == 2
PT_PEN == 3
PT_MOUSE == 4
PT_TOUCHPAD == 5

(* ---- bounds of the model ---------------------------------------------- *)
\* pointer identifiers delivered by the OS are 1..MaxPointerId
MaxPointerId == 2

\* largest pressure reported by GetPointerPenInfo ("0-1024")
MaxPressure == 1024

PointerMessages ==
    {WM_POINTERDOWN, WM_POINTERUP, WM_POINTERUPDATE, WM_POINTERENTER, WM_POINTERLEAVE}

Messages == PointerMessages \cup {WM_FONTCHANGE, WM_PAINT}

PointerIds == 1..MaxPointerId

\* wParam values: the pointer id in the low word, flags in the high word.
\* Pointer id 1 is delivered with a flag set in the high word, the others
\* with none.
WParams == {IF id = 1 THEN 65536 + id ELSE id : id \in PointerIds}

\* device types GetPointerType reports
PointerTypes == {PT_TOUCH, PT_PEN}

\* pressures GetPointerPenInfo reports
Pressures == {0, MaxPressure}

VARIABLES
    g_pointer_api_initialized,     \* flutter_window.cpp:87
    g_GetPointerType,              \* :85   TRUE = resolved (non-null)
    g_GetPointerPenInfo,           \* :86   TRUE = resolved (non-null)
    g_flutter_window,              \* :90   "null" | "this"
    g_original_flutter_view_proc,  \* :93   "null" | "original" | "subclass"
    pc,                            \* lifecycle position of the window object
    flutter_controller_,           \* flutter_window.h:42  "null" | "noengine" | "ok"
    pointer_channel_,              \* :45   TRUE = non-null
    pointer_type_cache_,           \* :48   function pointerId -> type
    original_flutter_view_proc_,   \* :51
    flutter_view_hwnd_,            \* :54   TRUE = non-null
    view_wndproc,                  \* OS: procedure of the view window, "none" when no view
    crashed,                       \* the process faulted (undefined behaviour taken as a fault)
    last                           \* what the last handled message did

vars == <<g_pointer_api_initialized, g_GetPointerType, g_GetPointerPenInfo,
          g_flutter_window, g_original_flutter_view_proc, pc, flutter_controller_,
          pointer_channel_, pointer_type_cache_, original_flutter_view_proc_,
          flutter_view_hwnd_, view_wndproc, crashed, last>>

globals == <<g_pointer_api_initialized, g_GetPointerType, g_GetPointerPenInfo>>

EmptyCache == [k \in {} |-> 0]

NoMsg ==
    [path |-> "none", message |-> 0, wparam |-> 0, hpm |-> FALSE,
     typeQ |-> "none", type |-> 0, penQ |-> "none", penValue |-> 0, prev |-> 0,
     sent |-> <<>>, dispatched |-> <<>>, next |-> <<>>, order |-> <<>>,
     handled |-> FALSE, propagated |-> FALSE, total |-> 0, lookup |-> FALSE]

(* ---- pure helpers ------------------------------------------------------ *)
\* GET_POINTERID_WPARAM(wParam) = LOWORD(wParam)
GET_POINTERID_WPARAM(wparam) == wparam % 65536

\* static_cast<int>(UINT32): values below 2^31 are kept, the others wrap to
\* u - 2^32 (written with numbers that fit 32 bits).
StaticCastInt(u) ==
    IF u \div 65536 < 32768 THEN u ELSE ((u - 2147483647) - 2147483647) - 2

\* pointer_type_cache_[pointerId] = pointerType
CacheStore(cache, pointerId, pointerType) ==
    [k \in (DOMAIN cache) \cup {pointerId} |->
        IF k = pointerId THEN pointerType ELSE cache[k]]

\* Variant of CacheErase that leaves the entry in the cache.
CacheErase_Keep(cache, pointerId) == cache

\* pointer_type_cache_.erase(pointerId)
CacheErase(cache, pointerId) ==
    [k \in (DOMAIN cache) \ {pointerId} |-> cache[k]]

\* the cached type of pointerId, 0 when there is no entry
CacheGet(cache, pointerId) ==
    IF pointerId \in DOMAIN cache THEN cache[pointerId] ELSE 0


(* ---- Event Forwarder: FlutterWindow::SendPointerTypeToDart ------------- *)
\* Variant of SendPointerTypeToDart without the test of pointer_channel_.
SendPointerTypeToDart_NoNullCheck(pointerId, pointerType, pressure) ==
    << [method |-> "onPointerTypeDetected",
        pointerId |-> StaticCastInt(pointerId),
        pointerType |-> StaticCastInt(pointerType),
        pressure |-> StaticCastInt(pressure)] >>

\* The InvokeMethod calls made on pointer_channel_: none when the channel is
\* null, else one "onPointerTypeDetected" with the three values cast to int.
SendPointerTypeToDart(pointerId, pointerType, pressure) ==
    IF ~pointer_channel_
    THEN <<>>
    ELSE << [method |-> "onPointerTypeDetected",
             pointerId |-> StaticCastInt(pointerId),
             pointerType |-> StaticCastInt(pointerType),
             pressure |-> StaticCastInt(pressure)] >>

(* ---- Pointer Classifier: FlutterWindow::HandlePointerMessage ----------- *)
\* Variants of SendOnMessage with a slip in the message test.
SendOnMessage_DownOrUp(message) == message \in {WM_POINTERDOWN, WM_POINTERUP}

SendOnMessage_Always(message) == TRUE

\* "Only send on DOWN events to reduce traffic"
SendOnMessage(message) == message = WM_POINTERDOWN

\* Variant of PenPressure that asks for pen data whatever the device type.
PenPressure_NoTypeCheck(pointerType, penOk, penPressure) ==
    IF g_GetPointerPenInfo
    THEN [penQ |-> IF penOk THEN "ok" ELSE "fail",
          pressure |-> IF penOk THEN penPressure ELSE 0]
    ELSE [penQ |-> "none", pressure |-> 0]

\* Lines 309-317: pressure starts at 0; GetPointerPenInfo is called only for
\* a pen with the capability resolved; its value is taken only on success.
PenPressure(pointerType, penOk, penPressure) ==
    IF pointerType = PT_PEN /\ g_GetPointerPenInfo
    THEN [penQ |-> IF penOk THEN "ok" ELSE "fail",
          pressure |-> IF penOk THEN penPressure ELSE 0]
    ELSE [penQ |-> "none", pressure |-> 0]

\* Variants of OnQueryFailure: the entry is dropped; the initial value of
\* pointerType is stored.
OnQueryFailure_Erase(cache, pointerId) == CacheErase(cache, pointerId)

OnQueryFailure_StoreInitial(cache, pointerId) == CacheStore(cache, pointerId, PT_POINTER)

\* Lines 332-337: a failed GetPointerType is logged; the cache is not touched.
OnQueryFailure(cache, pointerId) == cache

\* Variant of HandlePointerMessage that reports the type found in the cache
\* when the identifier already has an entry.
HandlePointerMessage_CachedType(message, wparam, typeOk, pointerTypeOut, penOk, penPressure) ==
    IF ~g_GetPointerType
    THEN [cache |-> pointer_type_cache_, typeQ |-> "none", type |-> 0,
          penQ |-> "none", penValue |-> 0, sent |-> <<>>, dispatched |-> <<>>]
    ELSE
      LET pointerId == GET_POINTERID_WPARAM(wparam) IN
      IF typeOk
      THEN
        LET pointerType == IF pointerId \in DOMAIN pointer_type_cache_
                           THEN pointer_type_cache_[pointerId]
                           ELSE pointerTypeOut
            pen == PenPressure(pointerType, penOk, penPressure)
            send == SendOnMessage(message)
        IN [cache |-> CacheStore(pointer_type_cache_, pointerId, pointerType),
            typeQ |-> "ok", type |-> pointerTypeOut,
            penQ |-> pen.penQ,
            penValue |-> IF pen.penQ = "ok" THEN penPressure ELSE 0,
            sent |-> IF send
                     THEN << [pointerId |-> pointerId, pointerType |-> pointerType,
                              pressure |-> pen.pressure] >>
                     ELSE <<>>,
            dispatched |-> IF send
                           THEN SendPointerTypeToDart(pointerId, pointerType, pen.pressure)
                           ELSE <<>>]
      ELSE [cache |-> OnQueryFailure(pointer_type_cache_, pointerId),
            typeQ |-> "fail", type |-> 0,
            penQ |-> "none", penValue |-> 0, sent |-> <<>>, dispatched |-> <<>>]

\* typeOk/pointerTypeOut: what GetPointerType answers; penOk/penPressure: what
\* GetPointerPenInfo answers (used only if the call is made).
\* The result carries the new cache, the calls made and their answers, the
\* events handed to SendPointerTypeToDart and the InvokeMethod calls made.
HandlePointerMessage(message, wparam, typeOk, pointerTypeOut, penOk, penPressure) ==
    IF ~g_GetPointerType
    THEN [cache |-> pointer_type_cache_, typeQ |-> "none", type |-> 0,
          penQ |-> "none", penValue |-> 0, sent |-> <<>>, dispatched |-> <<>>]
    ELSE
      LET pointerId == GET_POINTERID_WPARAM(wparam) IN
      IF typeOk
      THEN
        LET pointerType == pointerTypeOut
            pen == PenPressure(pointerType, penOk, penPressure)
            send == SendOnMessage(message)
        IN [cache |-> CacheStore(pointer_type_cache_, pointerId, pointerType),
            typeQ |-> "ok", type |-> pointerType,
            penQ |-> pen.penQ,
            penValue |-> IF pen.penQ = "ok" THEN penPressure ELSE 0,
            sent |-> IF send
                     THEN << [pointerId |-> pointerId, pointerType |-> pointerType,
                              pressure |-> pen.pressure] >>
                     ELSE <<>>,
            dispatched |-> IF send
                           THEN SendPointerTypeToDart(pointerId, pointerType, pen.pressure)
                           ELSE <<>>]
      ELSE [cache |-> OnQueryFailure(pointer_type_cache_, pointerId),
            typeQ |-> "fail", type |-> 0,
            penQ |-> "none", penValue |-> 0, sent |-> <<>>, dispatched |-> <<>>]

\* FlutterWindow::ProcessPointerMessage forwards to HandlePointerMessage.
ProcessPointerMessage(message, wparam, typeOk, pointerTypeOut, penOk, penPressure) ==
    HandlePointerMessage(message, wparam, typeOk, pointerTypeOut, penOk, penPressure)


(* ---- Capability Prober: InitializePointerApi --------------------------- *)
\* Variant of InitializePointerApi without the g_pointer_api_initialized guard.
InitializePointerApi_NoGuard(user32Ok, typeFound, penFound) ==
    IF user32Ok
    THEN <<TRUE, typeFound, penFound, TRUE>>
    ELSE <<TRUE, g_GetPointerType, g_GetPointerPenInfo, TRUE>>

\* Variant of InitializePointerApi that looks the functions up again when
\* GetPointerType was not found before.
InitializePointerApi_RetryOnFailure(user32Ok, typeFound, penFound) ==
    IF g_pointer_api_initialized /\ g_GetPointerType
    THEN <<g_pointer_api_initialized, g_GetPointerType, g_GetPointerPenInfo, FALSE>>
    ELSE IF user32Ok
         THEN <<TRUE, typeFound, penFound, TRUE>>
         ELSE <<TRUE, g_GetPointerType, g_GetPointerPenInfo, TRUE>>

\* user32Ok: GetModuleHandleA found user32.dll; typeFound/penFound: what the
\* two GetProcAddress calls find.  The values of the three globals after the
\* call and whether the lookup (GetModuleHandleA, GetProcAddress) was made,
\* as <<initialized, GetPointerType, GetPointerPenInfo, looked up>>.
InitializePointerApi(user32Ok, typeFound, penFound) ==
    IF g_pointer_api_initialized
    THEN <<g_pointer_api_initialized, g_GetPointerType, g_GetPointerPenInfo, FALSE>>
    ELSE IF user32Ok
         THEN <<TRUE, typeFound, penFound, TRUE>>
         ELSE <<TRUE, g_GetPointerType, g_GetPointerPenInfo, TRUE>>

(* ---- lifecycle of the window object ------------------------------------ *)
\* pc: "none"        no FlutterWindow object
\*     "constructed" constructed, OnCreate not yet run
\*     "created"     OnCreate returned true
\*     "createFailed" OnCreate returned false
\*     "destroyed"   OnDestroy has run
\*     "dtor"        the destructor body has run, the members are not yet released
HasWindow == pc \in {"constructed", "created", "createFailed", "destroyed"}

\* FlutterWindow::FlutterWindow
Constructor(user32Ok, typeFound, penFound) ==
    /\ pc = "none"
    /\ ~crashed
    /\ LET api == InitializePointerApi(user32Ok, typeFound, penFound) IN
         /\ g_pointer_api_initialized' = api[1]
         /\ g_GetPointerType' = api[2]
         /\ g_GetPointerPenInfo' = api[3]
         /\ last' = [NoMsg EXCEPT !.lookup = api[4]]
    /\ g_flutter_window' = "this"
    /\ pc' = "constructed"
    /\ UNCHANGED <<g_original_flutter_view_proc, flutter_controller_, pointer_channel_,
                   pointer_type_cache_, original_flutter_view_proc_, flutter_view_hwnd_,
                   view_wndproc, crashed>>

\* FlutterWindow::SubclassFlutterView.  swlOk: SetWindowLongPtr succeeds and
\* returns the procedure it replaced; on failure it returns 0 and replaces
\* nothing.  The values after the call, as
\* <<g_original_flutter_view_proc, original_flutter_view_proc_, view_wndproc>>.
SubclassFlutterView(viewHwnd, viewProc, swlOk) ==
    IF ~viewHwnd
    THEN <<g_original_flutter_view_proc, original_flutter_view_proc_, viewProc>>
    ELSE IF swlOk
         THEN <<viewProc, viewProc, "subclass">>
         ELSE <<"null", original_flutter_view_proc_, viewProc>>

\* FlutterWindow::OnCreate.  baseOk: Win32Window::OnCreate succeeds;
\* engineOk: the controller has an engine and a view; viewHwnd: GetNativeWindow
\* returns a handle; swlOk: as for SubclassFlutterView.
OnCreate(baseOk, engineOk, viewHwnd, swlOk) ==
    /\ pc = "constructed"
    /\ ~crashed
    /\ last' = NoMsg
    /\ IF ~baseOk
       THEN /\ pc' = "createFailed"
            /\ UNCHANGED <<flutter_controller_, pointer_channel_, flutter_view_hwnd_,
                           g_original_flutter_view_proc, original_flutter_view_proc_,
                           view_wndproc>>
       ELSE IF ~engineOk
       THEN /\ pc' = "createFailed"
            /\ flutter_controller_' = "noengine"
            /\ UNCHANGED <<pointer_channel_, flutter_view_hwnd_,
                           g_original_flutter_view_proc, original_flutter_view_proc_,
                           view_wndproc>>
       ELSE LET sub == SubclassFlutterView(viewHwnd, "original", swlOk) IN
            /\ pc' = "created"
            /\ flutter_controller_' = "ok"
            /\ pointer_channel_' = TRUE
            /\ flutter_view_hwnd_' = viewHwnd
            /\ g_original_flutter_view_proc' = sub[1]
            /\ original_flutter_view_proc_' = sub[2]
            /\ view_wndproc' = sub[3]
    /\ UNCHANGED <<globals, g_flutter_window, pointer_type_cache_, crashed>>

\* FlutterWindow::OnDestroy: releases the controller, which destroys the view.
OnDestroy ==
    /\ pc \in {"constructed", "created", "createFailed"}
    /\ ~crashed
    /\ flutter_controller_' = "null"
    /\ view_wndproc' = "none"
    /\ pc' = "destroyed"
    /\ last' = NoMsg
    /\ UNCHANGED <<globals, g_flutter_window, g_original_flutter_view_proc,
                   pointer_channel_, pointer_type_cache_, original_flutter_view_proc_,
                   flutter_view_hwnd_, crashed>>

\* Variant of DestructorBody that leaves g_flutter_window as it is.
DestructorBody_KeepsHandlerReference ==
    /\ HasWindow
    /\ ~crashed
    /\ pc' = "dtor"
    /\ last' = NoMsg
    /\ UNCHANGED <<globals, g_flutter_window, g_original_flutter_view_proc,
                   flutter_controller_, pointer_channel_, pointer_type_cache_,
                   original_flutter_view_proc_, flutter_view_hwnd_, view_wndproc,
                   crashed>>

\* FlutterWindow::~FlutterWindow, the body: g_flutter_window = nullptr.
DestructorBody ==
    /\ HasWindow
    /\ ~crashed
    /\ g_flutter_window' = "null"
    /\ pc' = "dtor"
    /\ last' = NoMsg
    /\ UNCHANGED <<globals, g_original_flutter_view_proc, flutter_controller_,
                   pointer_channel_, pointer_type_cache_, original_flutter_view_proc_,
                   flutter_view_hwnd_, view_wndproc, crashed>>

\* FlutterWindow::~FlutterWindow, the members: the cache, the channel and the
\* controller (and with it the view) are released; the object is gone.
DestructorMembers ==
    /\ pc = "dtor"
    /\ ~crashed
    /\ flutter_controller_' = "null"
    /\ pointer_channel_' = FALSE
    /\ pointer_type_cache_' = EmptyCache
    /\ original_flutter_view_proc_' = "null"
    /\ flutter_view_hwnd_' = FALSE
    /\ view_wndproc' = "none"
    /\ pc' = "none"
    /\ last' = NoMsg
    /\ UNCHANGED <<globals, g_flutter_window, g_original_flutter_view_proc, crashed>>


(* ---- Interception Point, child surface: FlutterViewSubclassProc -------- *)
\* A call of a next handler, with the parameters it is given.
Call(to, message, wparam) == [to |-> to, message |-> message, wparam |-> wparam]

\* Variant of HandlerOrder that calls the next handlers before the pointer
\* switch runs.
HandlerOrder_NextFirst(dispatched, next) ==
    [i \in 1..Len(next) |-> next[i].to] \o [i \in 1..Len(dispatched) |-> "InvokeMethod"]

\* The calls one handler makes, in the order it makes them: both handlers
\* run the pointer switch (and with it SendPointerTypeToDart) first and call
\* the next handlers after it.
HandlerOrder(dispatched, next) ==
    [i \in 1..Len(dispatched) |-> "InvokeMethod"] \o [i \in 1..Len(next) |-> next[i].to]

\* Variant of CallOriginal that consumes the pointer messages.
CallOriginal_ConsumesPointer(message, wparam) ==
    IF message \in PointerMessages
    THEN <<>>
    ELSE IF g_original_flutter_view_proc # "null"
         THEN << Call("CallWindowProc", message, wparam) >>
         ELSE << Call("DefWindowProc", message, wparam) >>

\* Lines 131-135: the original procedure when one is recorded, else
\* DefWindowProc.
CallOriginal(message, wparam) ==
    IF g_original_flutter_view_proc # "null"
    THEN << Call("CallWindowProc", message, wparam) >>
    ELSE << Call("DefWindowProc", message, wparam) >>

\* Lines 98-129: the five pointer messages go to ProcessPointerMessage when
\* g_flutter_window is set.
SubclassRoutes(message) == message \in PointerMessages /\ g_flutter_window # "null"

\* The view window exists and its procedure is FlutterViewSubclassProc.
FlutterViewSubclassProc(message, wparam, typeOk, pointerTypeOut, penOk, penPressure) ==
    /\ view_wndproc = "subclass"
    /\ ~crashed
    /\ IF SubclassRoutes(message)
       THEN LET h == ProcessPointerMessage(message, wparam, typeOk, pointerTypeOut,
                                           penOk, penPressure) IN
            /\ pointer_type_cache_' = h.cache
            /\ last' = [path |-> "subclass", message |-> message, wparam |-> wparam,
                        hpm |-> TRUE, typeQ |-> h.typeQ, type |-> h.type,
                        penQ |-> h.penQ, penValue |-> h.penValue,
                        prev |-> CacheGet(pointer_type_cache_, GET_POINTERID_WPARAM(wparam)),
                        sent |-> h.sent, dispatched |-> h.dispatched,
                        next |-> CallOriginal(message, wparam),
                        order |-> HandlerOrder(h.dispatched, CallOriginal(message, wparam)),
                        handled |-> FALSE, propagated |-> FALSE,
                        total |-> Len(h.dispatched), lookup |-> FALSE]
       ELSE /\ pointer_type_cache_' = pointer_type_cache_
            /\ last' = [NoMsg EXCEPT !.path = "subclass", !.message = message,
                                     !.wparam = wparam,
                                     !.next = CallOriginal(message, wparam),
                                     !.order = HandlerOrder(<<>>, CallOriginal(message, wparam))]
    /\ UNCHANGED <<globals, g_flutter_window, g_original_flutter_view_proc, pc,
                   flutter_controller_, pointer_channel_, original_flutter_view_proc_,
                   flutter_view_hwnd_, view_wndproc, crashed>>

(* ---- Interception Point, top level: FlutterWindow::MessageHandler ------ *)
\* Variant of TopLevelRoutes that leaves pointer-down to the child surface.
TopLevelRoutes_NoDown(message) ==
    message \in {WM_POINTERUP, WM_POINTERUPDATE, WM_POINTERENTER}

\* Lines 263-268: the messages MessageHandler gives to HandlePointerMessage.
TopLevelRoutes(message) ==
    message \in {WM_POINTERDOWN, WM_POINTERUP, WM_POINTERUPDATE, WM_POINTERENTER}

\* Variant of PassOn that returns after the pointer switch for the messages
\* the switch has handled.
PassOn_ConsumesPointer(message, wparam, handled, fault) ==
    IF message \in PointerMessages
    THEN << <<>>, FALSE, FALSE >>
    ELSE LET top == IF flutter_controller_ # "null"
                    THEN << Call("HandleTopLevelWindowProc", message, wparam) >>
                    ELSE <<>>
         IN IF flutter_controller_ # "null" /\ handled
            THEN <<top, FALSE, TRUE>>
            ELSE IF message = WM_FONTCHANGE /\ flutter_controller_ # "ok" /\ fault
            THEN <<top, TRUE, FALSE>>
            ELSE <<top \o << Call("Win32Window::MessageHandler", message, wparam) >>,
                   FALSE, FALSE>>

\* Lines 277-293: what follows the pointer switch.  handled: the controller's
\* HandleTopLevelWindowProc returns a result.  WM_FONTCHANGE dereferences
\* flutter_controller_ and its engine without a check: when either is null
\* the behaviour is undefined, and fault says whether the process faults.
\* The result is <<calls made, faulted, the controller returned a result>>.
PassOn(message, wparam, handled, fault) ==
    LET top == IF flutter_controller_ # "null"
               THEN << Call("HandleTopLevelWindowProc", message, wparam) >>
               ELSE <<>>
    IN IF flutter_controller_ # "null" /\ handled
       THEN <<top, FALSE, TRUE>>
       ELSE IF message = WM_FONTCHANGE /\ flutter_controller_ # "ok" /\ fault
       THEN <<top, TRUE, FALSE>>
       ELSE <<top \o << Call("Win32Window::MessageHandler", message, wparam) >>,
              FALSE, FALSE>>

\* Messages reach the handler from the creation of the top-level window
\* (before OnCreate runs) until the object is destructed; after a failed
\* OnCreate the window is only torn down.
\* propagated: the message is the one FlutterViewSubclassProc has just
\* handled and passed on, which the original procedure left to the parent
\* window; `total` then counts the InvokeMethod calls of both handlers.
MessageHandler(message, wparam, typeOk, pointerTypeOut, penOk, penPressure, handled, fault, propagated) ==
    /\ pc \in {"constructed", "created", "destroyed"}
    /\ ~crashed
    /\ propagated =>
          /\ last.path = "subclass"
          /\ last.message = message
          /\ last.wparam = wparam
    /\ LET on == PassOn(message, wparam, handled, fault) IN
       /\ crashed' = on[2]
       /\ IF TopLevelRoutes(message)
          THEN LET h == HandlePointerMessage(message, wparam, typeOk, pointerTypeOut,
                                             penOk, penPressure) IN
               /\ pointer_type_cache_' = h.cache
               /\ last' = [path |-> "toplevel", message |-> message, wparam |-> wparam,
                           hpm |-> TRUE, typeQ |-> h.typeQ, type |-> h.type,
                           penQ |-> h.penQ, penValue |-> h.penValue,
                           prev |-> CacheGet(pointer_type_cache_, GET_POINTERID_WPARAM(wparam)),
                           sent |-> h.sent, dispatched |-> h.dispatched,
                           next |-> on[1],
                           order |-> HandlerOrder(h.dispatched, on[1]),
                           handled |-> on[3], propagated |-> propagated,
                           total |-> (IF propagated THEN last.total ELSE 0)
                                        + Len(h.dispatched),
                           lookup |-> FALSE]
          ELSE IF message = WM_POINTERLEAVE
          THEN /\ pointer_type_cache_' =
                     CacheErase(pointer_type_cache_, GET_POINTERID_WPARAM(wparam))
               /\ last' = [NoMsg EXCEPT !.path = "toplevel", !.message = message,
                               !.wparam = wparam,
                               !.prev = CacheGet(pointer_type_cache_,
                                                 GET_POINTERID_WPARAM(wparam)),
                               !.next = on[1],
                               !.order = HandlerOrder(<<>>, on[1]),
                               !.handled = on[3], !.propagated = propagated,
                               !.total = IF propagated THEN last.total ELSE 0]
          ELSE /\ pointer_type_cache_' = pointer_type_cache_
               /\ last' = [NoMsg EXCEPT !.path = "toplevel", !.message = message,
                               !.wparam = wparam, !.next = on[1],
                               !.order = HandlerOrder(<<>>, on[1]),
                               !.handled = on[3], !.propagated = propagated,
                               !.total = IF propagated THEN last.total ELSE 0]
    /\ UNCHANGED <<globals, g_flutter_window, g_original_flutter_view_proc, pc,
                   flutter_controller_, pointer_channel_, original_flutter_view_proc_,
                   flutter_view_hwnd_, view_wndproc>>

(* ---- the environment ---------------------------------------------------- *)
\* What the OS answers to the two queries a pointer message may cause, as
\* <<typeOk, pointerTypeOut, penOk, penPressure>>.  A failed GetPointerType
\* leaves pointerType at its initial PT_POINTER, a failed GetPointerPenInfo
\* leaves penInfo zeroed.  A function that was not resolved cannot be
\* called and gives no answer; other messages cause no query.
NoAnswer == <<FALSE, PT_POINTER, FALSE, 0>>

PenAnswers ==
    IF g_GetPointerPenInfo
    THEN {<<FALSE, 0>>} \cup {<<TRUE, p>> : p \in Pressures}
    ELSE {<<FALSE, 0>>}

OsAnswers(message) ==
    IF message \in PointerMessages /\ g_GetPointerType
    THEN {NoAnswer} \cup {<<TRUE, t, pen[1], pen[2]>> : t \in PointerTypes, pen \in PenAnswers}
    ELSE {NoAnswer}

\* Whether HandleTopLevelWindowProc, when there is a controller to call it
\* on, returns a result.
HandledChoices == IF flutter_controller_ = "null" THEN {FALSE} ELSE BOOLEAN

\* Whether the undefined behaviour of WM_FONTCHANGE without an engine shows
\* as a fault.
FaultChoices(message) ==
    IF message = WM_FONTCHANGE /\ flutter_controller_ # "ok" THEN BOOLEAN ELSE {FALSE}

\* Whether the message is one the child surface has just passed on and the
\* original procedure leaves to the parent window (pointer messages only).
PropagationChoices(message, wparam) ==
    IF /\ message \in PointerMessages
       /\ last.path = "subclass"
       /\ last.message = message
       /\ last.wparam = wparam
    THEN BOOLEAN
    ELSE {FALSE}

(* ---- the specification -------------------------------------------------- *)
Init ==
    /\ g_pointer_api_initialized = FALSE
    /\ g_GetPointerType = FALSE
    /\ g_GetPointerPenInfo = FALSE
    /\ g_flutter_window = "null"
    /\ g_original_flutter_view_proc = "null"
    /\ pc = "none"
    /\ flutter_controller_ = "null"
    /\ pointer_channel_ = FALSE
    /\ pointer_type_cache_ = EmptyCache
    /\ original_flutter_view_proc_ = "null"
    /\ flutter_view_hwnd_ = FALSE
    /\ view_wndproc = "none"
    /\ crashed = FALSE
    /\ last = NoMsg

Next ==
    \/ \E user32Ok, typeFound, penFound \in BOOLEAN :
          Constructor(user32Ok, typeFound, penFound)
    \/ \E baseOk, engineOk, viewHwnd, swlOk \in BOOLEAN :
          OnCreate(baseOk, engineOk, viewHwnd, swlOk)
    \/ OnDestroy
    \/ DestructorBody
    \/ DestructorMembers
    \/ \E message \in Messages, wparam \in WParams :
          \E os \in OsAnswers(message) :
             FlutterViewSubclassProc(message, wparam, os[1], os[2], os[3], os[4])
    \/ \E message \in Messages, wparam \in WParams :
          \E os \in OsAnswers(message), handled \in HandledChoices,
             fault \in FaultChoices(message),
             propagated \in PropagationChoices(message, wparam) :
             MessageHandler(message, wparam, os[1], os[2], os[3], os[4], handled, fault,
                            propagated)

Spec == Init /\ [][Next]_vars


(* ======================================================================== *)
(* Properties                                                               *)
(* ======================================================================== *)
\* `last` describes the message handled by the step that led to the state:
\* path/message/wparam, whether it was given to HandlePointerMessage (hpm),
\* the answers of the two OS queries it made (typeQ/type, penQ/penValue),
\* the cache entry of its identifier before it (prev), the events it handed
\* to SendPointerTypeToDart (sent), the InvokeMethod calls (dispatched) and
\* the next handlers it called (next), all its calls in order (order),
\* whether the controller returned a result (handled), whether the child
\* surface had handled the same message before (propagated) and the
\* InvokeMethod calls made for it so far (total).  Every other step resets
\* it to NoMsg; the constructor notes whether it looked the functions up
\* (lookup).
LastId == GET_POINTERID_WPARAM(last.wparam)

SentFor(id) == \E i \in 1..Len(last.sent) : last.sent[i].pointerId = id

\* C1: handling a message hands a classification event for the message's
\* identifier to the forwarder exactly when the message is a pointer-down
\* given to HandlePointerMessage, g_GetPointerType is resolved and the
\* GetPointerType query made for that message succeeded; no event for any
\* other identifier is handed over.
C1_EventIffDownResolvedQueried ==
    last.path # "none" =>
        /\ SentFor(LastId) <=>
              (/\ last.hpm
               /\ last.message = WM_POINTERDOWN
               /\ g_GetPointerType
               /\ last.typeQ = "ok")
        /\ \A i \in 1..Len(last.sent) : last.sent[i].pointerId = LastId

\* a pointer-down was classified and its event handed to the forwarder
C1_Witness ==
    /\ last.hpm
    /\ last.message = WM_POINTERDOWN
    /\ last.typeQ = "ok"
    /\ SentFor(LastId)

\* C2: one pointer-down hands over (and dispatches) at most one event; a
\* pointer-update, pointer-enter or pointer-up hands over none and only
\* writes the queried type to the cache.
C2_AtMostOnePerDownNoneOtherwise ==
    /\ last.message = WM_POINTERDOWN =>
          Len(last.sent) <= 1 /\ Len(last.dispatched) <= 1
    /\ last.message \in {WM_POINTERUPDATE, WM_POINTERENTER, WM_POINTERUP} =>
          /\ last.sent = <<>>
          /\ last.dispatched = <<>>
          /\ last.typeQ = "ok" => CacheGet(pointer_type_cache_, LastId) = last.type

\* a pointer-update changed the cached type of its identifier, silently
C2_Witness ==
    /\ last.message = WM_POINTERUPDATE
    /\ last.typeQ = "ok"
    /\ last.prev # 0
    /\ last.prev # last.type
    /\ last.sent = <<>>

\* C3 (as claimed; the child-surface path does not do this): after a
\* pointer-leave handled on either path the cache has no entry for its
\* identifier, and the leave caused no device-type query and was not given to
\* the classifier.
C3_LeaveRemovesAndIsNotClassified ==
    (last.path # "none" /\ last.message = WM_POINTERLEAVE) =>
        /\ LastId \notin DOMAIN pointer_type_cache_
        /\ last.typeQ = "none"
        /\ ~last.hpm

\* C4: the pressure of every event handed over, and dispatched, is the value
\* GetPointerPenInfo returned when the queried type is PT_PEN,
\* g_GetPointerPenInfo is resolved and that query succeeded, and 0 in every
\* other case; the event is produced in either case.
ExpectedPressure ==
    IF last.type = PT_PEN /\ g_GetPointerPenInfo /\ last.penQ = "ok"
    THEN last.penValue
    ELSE 0

C4_PressureOnlyFromPenQuery ==
    /\ \A i \in 1..Len(last.sent) : last.sent[i].pressure = ExpectedPressure
    /\ \A i \in 1..Len(last.dispatched) :
          last.dispatched[i].pressure = StaticCastInt(ExpectedPressure)
    /\ (last.hpm /\ last.message = WM_POINTERDOWN /\ last.typeQ = "ok") =>
          Len(last.sent) = 1

\* a pen event carrying the queried pressure
C4_Witness ==
    /\ Len(last.sent) = 1
    /\ last.type = PT_PEN
    /\ last.penQ = "ok"
    /\ last.sent[1].pressure = MaxPressure

\* C5: once InitializePointerApi has run without resolving GetPointerType,
\* the capability stays unresolved and no step hands over or dispatches an
\* event.
ResolutionFailed == g_pointer_api_initialized /\ ~g_GetPointerType

C5_NoEventWithoutTypeCapability ==
    [][ResolutionFailed =>
          /\ ResolutionFailed'
          /\ last'.sent = <<>>
          /\ last'.dispatched = <<>>]_vars

\* a pointer-down handled, without an event, by a later window object (an
\* earlier one recorded the original procedure) after the resolution failed
C5_Witness ==
    /\ ResolutionFailed
    /\ pc = "constructed"
    /\ g_original_flutter_view_proc = "original"
    /\ last.hpm
    /\ last.message = WM_POINTERDOWN
    /\ last.sent = <<>>


\* C6: every message FlutterViewSubclassProc receives, pointer-class or not,
\* classified or not, with g_flutter_window set or null, is passed exactly
\* once, with the message and wParam it came with, to the procedure that
\* SetWindowLongPtr replaced (never to DefWindowProc, never back to
\* FlutterViewSubclassProc).
C6_SubclassPassesEveryMessageOn ==
    last.path = "subclass" =>
        /\ last.next = << Call("CallWindowProc", last.message, last.wparam) >>
        /\ g_original_flutter_view_proc = "original"

\* a classified pointer-down on the child surface, passed on
C6_Witness ==
    /\ last.path = "subclass"
    /\ last.message = WM_POINTERDOWN
    /\ Len(last.sent) = 1
    /\ Len(last.next) = 1

\* C7: a message whose GetPointerType query fails hands over and dispatches
\* no event and leaves the whole cache as it was before the message; the
\* process does not fault, so later messages are handled.
C7_QueryFailureLeavesCacheUnchanged ==
    [][last'.typeQ = "fail" =>
          /\ last'.sent = <<>>
          /\ last'.dispatched = <<>>
          /\ pointer_type_cache_' = pointer_type_cache_
          /\ ~crashed']_vars

\* a failed query for an identifier while it and another one are cached
C7_Witness ==
    /\ last.typeQ = "fail"
    /\ LastId \in DOMAIN pointer_type_cache_
    /\ DOMAIN pointer_type_cache_ # {LastId}

\* C8 (as claimed; the code keeps the entry): after a pointer-down whose
\* GetPointerType query fails the cache has no entry for its identifier.
C8_NoEntryAfterFailedDown ==
    (last.message = WM_POINTERDOWN /\ last.typeQ = "fail") =>
        LastId \notin DOMAIN pointer_type_cache_

\* C8 amended: a pointer-down whose GetPointerType query fails leaves the
\* cache entry of its identifier as it was: absent if it was absent, and the
\* type cached by an earlier message if there was one.
C8_FailedDownKeepsEntryAsItWas ==
    [][(last'.message = WM_POINTERDOWN /\ last'.typeQ = "fail") =>
          /\ CacheGet(pointer_type_cache_', GET_POINTERID_WPARAM(last'.wparam))
                = CacheGet(pointer_type_cache_, GET_POINTERID_WPARAM(last'.wparam))
          /\ last'.prev
                = CacheGet(pointer_type_cache_', GET_POINTERID_WPARAM(last'.wparam))]_vars

\* a failed pointer-down for an identifier whose earlier type is still cached
C8_Witness ==
    /\ last.message = WM_POINTERDOWN
    /\ last.typeQ = "fail"
    /\ last.prev # 0
    /\ CacheGet(pointer_type_cache_, LastId) = last.prev

\* C9: the device type of every event handed over, and dispatched, is the
\* type GetPointerType returned for that same message, whatever the cache
\* held for the identifier before.
C9_EventTypeIsQueriedType ==
    /\ \A i \in 1..Len(last.sent) :
          last.typeQ = "ok" /\ last.sent[i].pointerType = last.type
    /\ \A i \in 1..Len(last.dispatched) :
          last.typeQ = "ok" /\ last.dispatched[i].pointerType = StaticCastInt(last.type)

\* a pointer-down whose identifier was cached with another type
C9_Witness ==
    /\ Len(last.sent) = 1
    /\ last.prev # 0
    /\ last.prev # last.type
    /\ last.sent[1].pointerType = last.type

\* C10: an event handed to SendPointerTypeToDart while pointer_channel_ is
\* null is not dispatched and causes no fault; the cache holds the queried
\* type as after any classification and the message is passed on.
C10_NullChannelIsNoOp ==
    (last.sent # <<>> /\ ~pointer_channel_) =>
        /\ last.dispatched = <<>>
        /\ ~crashed
        /\ CacheGet(pointer_type_cache_, LastId) = last.type
        /\ last.next # <<>>

\* a pointer-down classified before OnCreate has made the channel
C10_Witness ==
    /\ pc = "constructed"
    /\ ~pointer_channel_
    /\ Len(last.sent) = 1

\* C11: one pointer-down with a successful classification gives exactly one
\* onPointerTypeDetected call on the channel, also when the same down is
\* handled by FlutterViewSubclassProc first and by MessageHandler after it
\* (last.total counts the InvokeMethod calls of both handlers).
C11_OneEventPerPhysicalDown ==
    (/\ last.message = WM_POINTERDOWN
     /\ last.typeQ = "ok"
     /\ pointer_channel_) => last.total = 1

InstallFailed == pointer_channel_ /\ original_flutter_view_proc_ = "null"

\* C13: when installing the child-surface procedure has failed, no
\* classification event is produced for the rest of the session, whatever
\* pointer messages are delivered to the window.
C13_NoEventAfterInstallFailure ==
    InstallFailed => last.sent = <<>> /\ last.dispatched = <<>>

\* C13, amended: when installing the child-surface procedure has failed,
\* FlutterViewSubclassProc handles no message for the rest of the session,
\* so no event comes from the child surface; the window keeps working and
\* MessageHandler still classifies: it hands every pointer-down to
\* HandlePointerMessage, and one whose type query succeeds gives one event.
C13_InstallFailureLeavesTopLevelOnly ==
    InstallFailed =>
        /\ view_wndproc # "subclass"
        /\ last.path # "subclass"
        /\ (last.path = "toplevel" /\ last.message = WM_POINTERDOWN) =>
              /\ last.hpm
              /\ ~crashed
              /\ last.next # <<>>
              /\ (g_GetPointerType /\ last.typeQ = "ok") =>
                    Len(last.sent) = 1 /\ Len(last.dispatched) = 1

\* SetWindowLongPtr failed on an existing view, and a pointer-down at the
\* top level was classified and dispatched
C13_Witness ==
    /\ InstallFailed
    /\ flutter_view_hwnd_
    /\ g_original_flutter_view_proc = "null"
    /\ last.path = "toplevel"
    /\ last.message = WM_POINTERDOWN
    /\ Len(last.dispatched) = 1

\* C14: for every pointer-down with a successful classification, on either
\* path, the event is dispatched on the channel before the same message is
\* handed to the next handler (HandleTopLevelWindowProc, the base handler or
\* the original view procedure), and events go out in the order the downs
\* were delivered: each handler dispatches the event of the message it is
\* handling, before it returns, and no event of an earlier message later.
C14_DispatchBeforeNextHandler ==
    /\ (/\ last.message = WM_POINTERDOWN
         /\ last.typeQ = "ok"
         /\ pointer_channel_) =>
            /\ Len(last.dispatched) = 1
            /\ Len(last.order) > 1
            /\ last.order[1] = "InvokeMethod"
    /\ last.dispatched # <<>> =>
            /\ last.next # <<>>
            /\ \A i, j \in 1..Len(last.order) :
                  (last.order[i] = "InvokeMethod" /\ last.order[j] # "InvokeMethod")
                     => i < j
            /\ \A i \in 1..Len(last.dispatched) :
                  /\ last.message = WM_POINTERDOWN
                  /\ last.dispatched[i].pointerId = StaticCastInt(LastId)

\* a down the child surface passed on is dispatched by MessageHandler before
\* the controller and the base handler get it
C14_Witness ==
    /\ last.path = "toplevel"
    /\ last.propagated
    /\ last.order = << "InvokeMethod", "HandleTopLevelWindowProc",
                        "Win32Window::MessageHandler" >>

\* C15: capability resolution is idempotent and write-once.  Once
\* InitializePointerApi has run, g_pointer_api_initialized stays set and
\* neither capability changes in any later step; a later constructor makes
\* no lookup, so a resolution that failed stays failed.
C15_ResolutionIsWriteOnce ==
    [][IF g_pointer_api_initialized
       THEN /\ g_pointer_api_initialized'
            /\ g_GetPointerType' = g_GetPointerType
            /\ g_GetPointerPenInfo' = g_GetPointerPenInfo
            /\ ~last'.lookup
       ELSE g_pointer_api_initialized' <=> last'.lookup]_vars

\* a second window object has been constructed after a resolution that
\* found neither function, without a lookup
C15_Witness ==
    /\ pc = "constructed"
    /\ g_original_flutter_view_proc # "null"
    /\ g_pointer_api_initialized
    /\ ~g_GetPointerType
    /\ ~g_GetPointerPenInfo
    /\ ~last.lookup

\* C16: MessageHandler never consumes a message because of pointer
\* handling.  Whatever the message and the outcome of the classification,
\* the message is offered unchanged to HandleTopLevelWindowProc when
\* flutter_controller_ exists, and when that gives no result (or there is no
\* controller) it goes on, unchanged, to Win32Window::MessageHandler.  (Only
\* the fault of WM_FONTCHANGE on a missing controller or engine ends the
\* handler before that; it has nothing to do with pointers.)
C16_TopLevelNeverConsumes ==
    last.path = "toplevel" =>
        LET top  == Call("HandleTopLevelWindowProc", last.message, last.wparam)
            base == Call("Win32Window::MessageHandler", last.message, last.wparam)
        IN /\ flutter_controller_ # "null" => (last.next # <<>> /\ last.next[1] = top)
           /\ flutter_controller_ = "null" => ~last.handled
           /\ last.handled => last.next = << top >>
           /\ (~last.handled /\ ~crashed) =>
                 (last.next # <<>> /\ last.next[Len(last.next)] = base)
           /\ last.message \in PointerMessages => ~crashed

\* a pointer-down that was classified and dispatched, then offered to the
\* controller, which gave no result, and passed to the base handler
C16_Witness ==
    /\ last.path = "toplevel"
    /\ Len(last.dispatched) = 1
    /\ ~last.handled
    /\ Len(last.next) = 2
    /\ last.next[2].to = "Win32Window::MessageHandler"

\* C17: a pointer-leave for an identifier without a cache entry is a no-op
\* on either path: the cache is unchanged (no entry is created), no event is
\* produced and nothing faults; so a second such leave changes nothing
\* either.
C17_LeaveWithoutEntryIsNoOp ==
    [][(/\ last'.path # "none"
        /\ last'.message = WM_POINTERLEAVE
        /\ GET_POINTERID_WPARAM(last'.wparam) \notin DOMAIN pointer_type_cache_) =>
           /\ pointer_type_cache_' = pointer_type_cache_
           /\ last'.sent = <<>>
           /\ last'.dispatched = <<>>
           /\ ~crashed']_vars

\* C18: g_flutter_window is null or refers to a window object that has not
\* been destroyed: the constructor sets it, the destructor clears it before
\* the members are released, and so FlutterViewSubclassProc never calls
\* ProcessPointerMessage on a window whose destructor has begun.
C18_HandlerReferenceIsNullOrLive ==
    /\ g_flutter_window = "this" => HasWindow
    /\ pc = "constructed" => g_flutter_window = "this"
    /\ pc \in {"none", "dtor"} => g_flutter_window = "null"
    /\ (last.path = "subclass" /\ last.hpm) => HasWindow

\* the view still has the subclass procedure while the destructor runs: a
\* pointer message arrives, finds g_flutter_window null and is only passed on
C18_Witness ==
    /\ pc = "dtor"
    /\ g_flutter_window = "null"
    /\ last.path = "subclass"
    /\ last.message \in PointerMessages
    /\ ~last.hpm
    /\ last.next # <<>>

\* C19: an event is dispatched on the channel only while the hosted runtime
\* exists: whenever SendPointerTypeToDart invokes the channel,
\* flutter_controller_ is non-null, so a pointer-down handled after OnDestroy
\* is not dispatched.
C19_DispatchOnlyWhileControllerExists ==
    last.dispatched # <<>> => flutter_controller_ # "null"

====
